---- MODULE Spec2Model ----
(***************************************************************************)
(* Fingerprint-guarded updates of the GCE project commonInstanceMetadata,  *)
(* as implemented in cloudbridge/cloud/providers/gce/helpers.py.           *)
(*                                                                         *)
(* Every caller is a client that runs metadata operations one after the    *)
(* other.  One operation is the retried cycle of gce_metadata_save_op:     *)
(* fetch the document, run the callback on it, commit it under the fetched *)
(* fingerprint.  The remote store holds one document, accepts a commit     *)
(* only under its current fingerprint and takes a new fingerprint on every *)
(* accepted write.                                                         *)
(***************************************************************************)
EXTENDS Integers, Sequences, FiniteSets, TLC

VARIABLES
    store,      \* the stored commonInstanceMetadata: fingerprint, items
    strict,     \* whether the store refuses a body with a duplicate key
    plan,       \* per caller: the operations it calls, in order
    idx,        \* per caller: the position in plan of its current call
    pc,         \* per caller: "ready", "fetch", "callback", "commit", "returned"
    attempt,    \* per caller: tenacity's attempt number of the current call
    metadata,   \* per caller: the local dict of the running attempt
    cbret,      \* per caller: what the callback returned in the last attempt
    raised,     \* per caller: the exception the current call ended with
    ret,        \* per caller: the return value of the current call
    nFetch,     \* per caller: get_common_metadata calls of the current call
    nCallback,  \* per caller: callback invocations of the current call
    nCommit,    \* per caller: setCommonInstanceMetadata calls of the current call
    nConflict,  \* per caller: commits of the current call refused as stale
    log,        \* the store's latest accepted writes, oldest first
    faults      \* how many remote calls have failed for another reason

vars == <<store, strict, plan, idx, pc, attempt, metadata, cbret, raised, ret,
          nFetch, nCallback, nCommit, nConflict, log, faults>>

----------------------------------------------------------------------------
(* Bounds and input sets *)

\* longest items list of an initial document
MaxLen == 2

\* how many remote calls fail for a reason other than a stale fingerprint or
\* a duplicate key
MaxFaults == 1

\* how many of the latest accepted writes the log keeps
LogLen == 2

\* longest key and longest pattern of the pattern search
MaxKeyLen == 2
MaxPatLen == 2

\* tenacity.stop_after_attempt(10)
MaxAttempts == 10

Procs == {"p1", "p2", "p3"}
Keys == {"k1", "k2", "k3"}
Values == {"a", "b", "c", "z"}

Max(S) == CHOOSE x \in S : \A y \in S : y <= x

SeqsUpTo(S, n) == UNION {[1..m -> S] : m \in 0..n}

----------------------------------------------------------------------------
(* Exceptions *)

NoExc == [type |-> "none", content |-> ""]

FingerprintError ==
    [type |-> "HttpError",
     content |-> "Supplied fingerprint does not match current metadata fingerprint."]

DuplicateKeyError ==
    [type |-> "HttpError", content |-> "Metadata has duplicate key"]

TransportError == [type |-> "HttpError", content |-> "transport"]

NotFoundError == [type |-> "HttpError", content |-> "notFound"]

InternalError ==
    [type |-> "ProviderInternalException",
     content |-> "Multiple metadata entries found for the same key"]

\* a mutant of the retry predicate: every HttpError is retried
if_any_http_error(e) == e.type = "HttpError"

\* the retry predicate: an HttpError whose content holds the fingerprint message
__if_fingerprint_differs(e) ==
    /\ e.type = "HttpError"
    /\ e.content = "Supplied fingerprint does not match current metadata fingerprint."

\* a mutant of the stop condition: fewer attempts than there are callers
stop_after_attempt_2(n) == n >= 2

\* a mutant of the stop condition: one attempt too many
stop_after_attempt_11(n) == n >= MaxAttempts + 1

\* tenacity.stop_after_attempt(10): stop once the attempt number reaches 10
stop_after_attempt(n) == n >= MaxAttempts

----------------------------------------------------------------------------
(* Documents and callbacks *)

Entry(k, v) == [key |-> k, value |-> v]

\* metadata.get('items', [])
MetaItems(md) == IF md.hasItems THEN md.items ELSE <<>>

\* the positions of the entries of items with the given key
KeyPositions(items, key) == {i \in 1..Len(items) : items[i].key = key}

\* the list comprehension [item for item in items if item['key'] != key]
RECURSIVE WithoutKey(_, _)
WithoutKey(items, key) ==
    IF items = <<>> THEN <<>>
    ELSE IF Head(items).key = key THEN WithoutKey(Tail(items), key)
    ELSE <<Head(items)>> \o WithoutKey(Tail(items), key)

HasDuplicateKey(items) ==
    \E i, j \in 1..Len(items) : i # j /\ items[i].key = items[j].key

\* what a callback leaves: the dict, its return value, the exception it raised
CbResult(md, r, e) == [md |-> md, ret |-> r, exc |-> e]

\* a mutant of _update_metadata_key: the first matching entry is replaced
update_first_metadata_key(md, key, value) ==
    LET items == MetaItems(md)
        entries == KeyPositions(items, key)
    IN  IF entries # {}
        THEN CbResult([md EXCEPT !.items[CHOOSE i \in entries : \A j \in entries : i <= j].value = value],
                      "None", NoExc)
        ELSE CbResult([md EXCEPT !.hasItems = TRUE,
                                 !.items = Append(items, Entry(key, value))],
                      "None", NoExc)

\* a mutant of _update_metadata_key: the entry is appended whatever the keys
update_by_append(md, key, value) ==
    CbResult([md EXCEPT !.hasItems = TRUE,
                        !.items = Append(MetaItems(md), Entry(key, value))],
             "None", NoExc)

\* modify_or_add_metadata_item's callback
_update_metadata_key(md, key, value) ==
    LET items == MetaItems(md)
        entries == KeyPositions(items, key)
    IN  IF entries # {}
        THEN CbResult([md EXCEPT !.items[Max(entries)].value = value],
                      "None", NoExc)
        ELSE IF ~md.hasItems
        THEN CbResult([md EXCEPT !.hasItems = TRUE,
                                 !.items = <<Entry(key, value)>>],
                      "None", NoExc)
        ELSE CbResult([md EXCEPT !.items = Append(items, Entry(key, value))],
                      "None", NoExc)

\* a mutant of _add_metadata_key: a key that is there already is left alone
add_unless_present(md, key, value) ==
    IF KeyPositions(MetaItems(md), key) # {}
    THEN CbResult(md, "None", NoExc)
    ELSE CbResult([md EXCEPT !.hasItems = TRUE,
                             !.items = Append(MetaItems(md), Entry(key, value))],
                  "None", NoExc)

\* add_metadata_item's callback
_add_metadata_key(md, key, value) ==
    CbResult([md EXCEPT !.hasItems = TRUE,
                        !.items = Append(MetaItems(md), Entry(key, value))],
             "None", NoExc)

\* a mutant of _remove_metadata_by_key: every matching entry is deleted
remove_all_by_key(md, key) ==
    LET items == MetaItems(md)
        entries == WithoutKey(items, key)
    IN  IF items = <<>> \/ Len(entries) = Len(items)
        THEN CbResult(md, "False", NoExc)
        ELSE CbResult([md EXCEPT !.items = entries], "None", NoExc)

\* a mutant of _remove_metadata_by_key: a key that is not there is an error
remove_absent_raises(md, key) ==
    LET items == MetaItems(md)
        entries == WithoutKey(items, key)
    IN  IF items = <<>> \/ Len(entries) = Len(items)
        THEN CbResult(md, "False", NotFoundError)
        ELSE IF Len(entries) < Len(items) - 1
        THEN CbResult(md, "None", InternalError)
        ELSE CbResult([md EXCEPT !.items = entries], "None", NoExc)

\* remove_metadata_item's callback
_remove_metadata_by_key(md, key) ==
    LET items == MetaItems(md)
        entries == WithoutKey(items, key)
    IN  IF items = <<>>
        THEN CbResult(md, "False", NoExc)
        ELSE IF Len(entries) < Len(items) - 1
        THEN CbResult(md, "None", InternalError)
        ELSE IF Len(entries) = Len(items)
        THEN CbResult(md, "False", NoExc)
        ELSE CbResult([md EXCEPT !.items = entries], "None", NoExc)

\* a mutant of get_metadata_item_value: the first matching entry is taken
ItemValueFirst(md, key) ==
    LET items == MetaItems(md)
        entries == KeyPositions(items, key)
    IN  IF entries # {}
        THEN items[CHOOSE i \in entries : \A j \in entries : i <= j].value
        ELSE "None"

\* get_metadata_item_value, once the document is fetched: the value of the
\* last entry with the key, or None
ItemValue(md, key) ==
    LET items == MetaItems(md)
        entries == KeyPositions(items, key)
    IN  IF entries # {} THEN items[Max(entries)].value ELSE "None"

\* One token of the regular expression fnmatch.translate builds: "star" is
\* '.*', "any" is '.', "lit" is the escaped character c.  A string is the
\* sequence of its characters.
Token(t, c) == [t |-> t, c |-> c]

\* fnmatch.translate(pattern): '*' becomes '.*', '?' becomes '.', any other
\* character stands for itself; the expression ends with \Z
fnmatch_translate(pattern) ==
    [i \in 1..Len(pattern) |->
        IF pattern[i] = "*" THEN Token("star", "")
        ELSE IF pattern[i] = "?" THEN Token("any", "")
        ELSE Token("lit", pattern[i])]

\* the tokens from position i on match string from position j to its end (\Z)
RECURSIVE MatchFrom(_, _, _, _)
MatchFrom(regex, i, string, j) ==
    IF i > Len(regex) THEN j = Len(string) + 1
    ELSE IF regex[i].t = "star"
    THEN \E j2 \in j..(Len(string) + 1) : MatchFrom(regex, i + 1, string, j2)
    ELSE /\ j <= Len(string)
         /\ regex[i].t = "lit" => string[j] = regex[i].c
         /\ MatchFrom(regex, i + 1, string, j + 1)

\* a mutant of re_search: re.match, the expression is tried at the start only
re_match(regex, string) == MatchFrom(regex, 1, string, 1)

\* re.search(regex, string): the expression is tried at every position
re_search(regex, string) ==
    \E start \in 1..(Len(string) + 1) : MatchFrom(regex, 1, string, start)

\* the list comprehension [item for item in items if re.search(regex, item['key'])]
RECURSIVE Matching(_, _)
Matching(items, regex) ==
    IF items = <<>> THEN <<>>
    ELSE IF re_search(regex, Head(items).key)
    THEN <<Head(items)>> \o Matching(Tail(items), regex)
    ELSE Matching(Tail(items), regex)

\* find_all_metadata_items, once the document is fetched
FindAll(md, key_regex) ==
    LET items == MetaItems(md)
    IN  IF items = <<>> THEN <<>>
        ELSE Matching(items, fnmatch_translate(key_regex))

Op(kind, k, v) == [kind |-> kind, key |-> k, value |-> v]

\* a mutant of UsesSaveOp: the read operations go through the save cycle too
UsesSaveOpAlways(op) == TRUE

\* whether the operation calls gce_metadata_save_op; get_metadata_item_value
\* and find_all_metadata_items only call get_common_metadata
UsesSaveOp(op) == op.kind \in {"upsert", "add", "remove"}

\* what a read operation returns for the fetched document
ReadResult(op, md) ==
    IF op.kind = "get" THEN ItemValue(md, op.key) ELSE FindAll(md, op.key)

\* the callback each operation hands to gce_metadata_save_op
Callback(op, md) ==
    CASE op.kind = "upsert" -> _update_metadata_key(md, op.key, op.value)
      [] op.kind = "add"    -> _add_metadata_key(md, op.key, op.value)
      [] op.kind = "remove" -> _remove_metadata_by_key(md, op.key)
      [] OTHER              -> CbResult(md, "None", NoExc)

\* a mutant of the operations' return values: removal passes the callback's on
ReturnOfCallback(op, r) ==
    IF op.kind = "remove" /\ r = "False" THEN "False"
    ELSE IF op.kind = "remove" THEN "True" ELSE "None"

\* what the operation returns once gce_metadata_save_op has returned
ReturnValue(op, r) == IF op.kind = "remove" THEN "True" ELSE "None"

----------------------------------------------------------------------------
(* The steps of one call *)

CurOp(p) == plan[p][idx[p]]

\* a mutant of get_common_metadata: a retry keeps the dict of the attempt
\* before and takes only the fresh fingerprint
get_common_metadata_cached(p) ==
    IF attempt[p] > 1
    THEN [metadata[p] EXCEPT !.fingerprint = store.fingerprint]
    ELSE store

\* a mutant of get_common_metadata: a retry reuses the dict of the attempt
\* before, fingerprint included
get_common_metadata_reused(p) ==
    IF attempt[p] > 1 THEN metadata[p] ELSE store

\* get_common_metadata: the stored document with its current fingerprint
get_common_metadata(p) == store

\* tenacity's handling of an exception raised by attempt number attempt[p]:
\* retry when the predicate holds and the stop condition does not, else reraise
Raise(p, e) ==
    IF __if_fingerprint_differs(e) /\ ~stop_after_attempt(attempt[p])
    THEN /\ pc' = [pc EXCEPT ![p] = "fetch"]
         /\ attempt' = [attempt EXCEPT ![p] = @ + 1]
         /\ UNCHANGED <<raised, ret>>
    ELSE /\ pc' = [pc EXCEPT ![p] = "returned"]
         /\ raised' = [raised EXCEPT ![p] = e]
         /\ UNCHANGED <<attempt, ret>>

\* a caller starts the next operation of its plan
Call(p) ==
    /\ pc[p] \in {"ready", "returned"}
    /\ idx[p] < Len(plan[p])
    /\ idx' = [idx EXCEPT ![p] = @ + 1]
    /\ pc' = [pc EXCEPT ![p] = "fetch"]
    /\ attempt' = [attempt EXCEPT ![p] = 1]
    /\ raised' = [raised EXCEPT ![p] = NoExc]
    /\ ret' = [ret EXCEPT ![p] = "None"]
    /\ cbret' = [cbret EXCEPT ![p] = "None"]
    /\ nFetch' = [nFetch EXCEPT ![p] = 0]
    /\ nCallback' = [nCallback EXCEPT ![p] = 0]
    /\ nCommit' = [nCommit EXCEPT ![p] = 0]
    /\ nConflict' = [nConflict EXCEPT ![p] = 0]
    /\ UNCHANGED <<store, strict, plan, metadata, log, faults>>

\* metadata = get_common_metadata(provider); a read operation returns here
Fetch(p) ==
    /\ pc[p] = "fetch"
    /\ metadata' = [metadata EXCEPT ![p] = get_common_metadata(p)]
    /\ nFetch' = [nFetch EXCEPT ![p] = @ + 1]
    /\ IF UsesSaveOp(CurOp(p))
       THEN /\ pc' = [pc EXCEPT ![p] = "callback"]
            /\ UNCHANGED ret
       ELSE /\ pc' = [pc EXCEPT ![p] = "returned"]
            /\ ret' = [ret EXCEPT ![p] = ReadResult(CurOp(p), get_common_metadata(p))]
    /\ UNCHANGED <<store, strict, plan, idx, attempt, cbret, raised,
                   nCallback, nCommit, nConflict, log, faults>>

\* get_common_metadata raises: the read fails
FetchFail(p) ==
    /\ pc[p] = "fetch"
    /\ faults < MaxFaults
    /\ \E e \in {TransportError, NotFoundError} : Raise(p, e)
    /\ faults' = faults + 1
    /\ nFetch' = [nFetch EXCEPT ![p] = @ + 1]
    /\ UNCHANGED <<store, strict, plan, idx, metadata, cbret,
                   nCallback, nCommit, nConflict, log>>

\* callback(metadata)
RunCallback(p) ==
    /\ pc[p] = "callback"
    /\ LET r == Callback(CurOp(p), metadata[p])
       IN  /\ nCallback' = [nCallback EXCEPT ![p] = @ + 1]
           /\ metadata' = [metadata EXCEPT ![p] = r.md]
           /\ cbret' = [cbret EXCEPT ![p] = r.ret]
           /\ IF r.exc # NoExc
              THEN Raise(p, r.exc)
              ELSE /\ pc' = [pc EXCEPT ![p] = "commit"]
                   /\ UNCHANGED <<attempt, raised, ret>>
    /\ UNCHANGED <<store, strict, plan, idx, nFetch, nCommit, nConflict, log, faults>>

\* the store's fingerprint test of a commit
FingerprintMatches(p) == metadata[p].fingerprint = store.fingerprint

\* the store's duplicate-key test of a commit
RefusedAsDuplicate(p) == strict /\ HasDuplicateKey(MetaItems(metadata[p]))

\* the last LogLen entries of a log
Latest(l) == IF Len(l) <= LogLen THEN l ELSE SubSeq(l, Len(l) - LogLen + 1, Len(l))

\* a mutant of wait_for_operation: the wait fails after the write was taken
wait_for_operation_fails(p) == TransportError

\* provider.wait_for_operation(operation): the provider's polling of an
\* accepted write, which is outside this file; the commit is one synchronous
\* write that is durable once it is accepted, so the wait returns
wait_for_operation(p) == NoExc

\* setCommonInstanceMetadata(body=metadata) is accepted; the call returns
CommitAccept(p) ==
    /\ pc[p] = "commit"
    /\ FingerprintMatches(p)
    /\ ~RefusedAsDuplicate(p)
    /\ store' = [metadata[p] EXCEPT !.fingerprint = store.fingerprint + 1]
    /\ log' = Latest(Append(log, [proc |-> p, idx |-> idx[p], op |-> CurOp(p),
                                  fingerprint |-> metadata[p].fingerprint,
                                  before |-> store, after |-> metadata[p]]))
    /\ nCommit' = [nCommit EXCEPT ![p] = @ + 1]
    /\ IF wait_for_operation(p) = NoExc
       THEN /\ pc' = [pc EXCEPT ![p] = "returned"]
            /\ ret' = [ret EXCEPT ![p] = ReturnValue(CurOp(p), cbret[p])]
            /\ UNCHANGED <<attempt, raised>>
       ELSE Raise(p, wait_for_operation(p))
    /\ UNCHANGED <<strict, plan, idx, metadata, cbret,
                   nFetch, nCallback, nConflict, faults>>

\* setCommonInstanceMetadata is refused: the fingerprint is stale
CommitConflict(p) ==
    /\ pc[p] = "commit"
    /\ ~FingerprintMatches(p)
    /\ Raise(p, FingerprintError)
    /\ nCommit' = [nCommit EXCEPT ![p] = @ + 1]
    /\ nConflict' = [nConflict EXCEPT ![p] = @ + 1]
    /\ UNCHANGED <<store, strict, plan, idx, metadata, cbret,
                   nFetch, nCallback, log, faults>>

\* a mutant of CommitFatal: the write is taken before the call fails
CommitFatalAfterWrite(p) ==
    /\ pc[p] = "commit"
    /\ \E e \in (IF faults < MaxFaults THEN {TransportError, NotFoundError} ELSE {})
                \cup (IF RefusedAsDuplicate(p) THEN {DuplicateKeyError} ELSE {}) :
          /\ Raise(p, e)
          /\ faults' = IF e = DuplicateKeyError THEN faults ELSE faults + 1
    /\ store' = [metadata[p] EXCEPT !.fingerprint = store.fingerprint + 1]
    /\ log' = Latest(Append(log, [proc |-> p, idx |-> idx[p], op |-> CurOp(p),
                                  fingerprint |-> metadata[p].fingerprint,
                                  before |-> store, after |-> metadata[p]]))
    /\ nCommit' = [nCommit EXCEPT ![p] = @ + 1]
    /\ UNCHANGED <<strict, plan, idx, metadata, cbret,
                   nFetch, nCallback, nConflict>>

\* setCommonInstanceMetadata fails with another error; nothing is written
CommitFatal(p) ==
    /\ pc[p] = "commit"
    /\ \E e \in (IF faults < MaxFaults THEN {TransportError, NotFoundError} ELSE {})
                \cup (IF RefusedAsDuplicate(p) THEN {DuplicateKeyError} ELSE {}) :
          /\ Raise(p, e)
          /\ faults' = IF e = DuplicateKeyError THEN faults ELSE faults + 1
    /\ nCommit' = [nCommit EXCEPT ![p] = @ + 1]
    /\ UNCHANGED <<store, strict, plan, idx, metadata, cbret,
                   nFetch, nCallback, nConflict, log>>

Next ==
    \E p \in Procs :
        \/ Call(p)
        \/ Fetch(p)
        \/ FetchFail(p)
        \/ RunCallback(p)
        \/ CommitAccept(p)
        \/ CommitConflict(p)
        \/ CommitFatal(p)

----------------------------------------------------------------------------
(* Initial states *)

Doc(hasItems, items) ==
    [fingerprint |-> 0, hasItems |-> hasItems, items |-> items]

\* the documents of at most n entries over the given keys and values, and the
\* document without an items field
Docs(keys, values, n) ==
    {Doc(FALSE, <<>>)} \cup
    {Doc(TRUE, s) : s \in SeqsUpTo({Entry(k, v) : k \in keys, v \in values}, n)}

UpsertOps(keys, values) == {Op("upsert", k, v) : k \in keys, v \in values}
GetOps(keys) == {Op("get", k, "") : k \in keys}
FindOps(patterns) == {Op("find", pt, "") : pt \in patterns}
AddOps(keys, values) == {Op("add", k, v) : k \in keys, v \in values}
RemoveOps(keys) == {Op("remove", k, "") : k \in keys}
Ops(keys, values) ==
    UpsertOps(keys, values) \cup AddOps(keys, values) \cup RemoveOps(keys)

\* what every initial state shares: no caller has started
InitCallers ==
    /\ idx = [p \in Procs |-> 0]
    /\ pc = [p \in Procs |-> "ready"]
    /\ attempt = [p \in Procs |-> 0]
    /\ metadata = [p \in Procs |-> Doc(FALSE, <<>>)]
    /\ cbret = [p \in Procs |-> "None"]
    /\ raised = [p \in Procs |-> NoExc]
    /\ ret = [p \in Procs |-> "None"]
    /\ nFetch = [p \in Procs |-> 0]
    /\ nCallback = [p \in Procs |-> 0]
    /\ nCommit = [p \in Procs |-> 0]
    /\ nConflict = [p \in Procs |-> 0]
    /\ log = <<>>
    /\ faults = 0

\* One caller runs one operation, or the same operation twice in sequence; a
\* second caller may run one operation beside it.
InitSeq ==
    /\ InitCallers
    /\ store \in Docs({"k1", "k2"}, {"a", "b"}, MaxLen)
    /\ strict \in BOOLEAN
    /\ \E o \in Ops({"k1", "k2"}, {"a", "b"}) :
       \E q \in {<<>>, <<Op("upsert", "k1", "a")>>, <<Op("add", "k1", "a")>>,
                 <<Op("remove", "k3", "")>>} :
       \E twice \in BOOLEAN :
          plan = [p \in Procs |->
                    IF p = "p1" THEN (IF twice THEN <<o, o>> ELSE <<o>>)
                    ELSE IF p = "p2" THEN q ELSE <<>>]

SpecSeq == InitSeq /\ [][Next]_vars

\* Three callers race, each running one upsertItem with a value of its own;
\* the keys range from all equal to pairwise distinct.
InitRace ==
    /\ InitCallers
    /\ store \in Docs(Keys, {"z"}, MaxLen)
    /\ strict \in BOOLEAN
    /\ \E k2 \in {"k1", "k2"}, k3 \in Keys :
          plan = [p \in Procs |->
                    IF p = "p1" THEN <<Op("upsert", "k1", "a")>>
                    ELSE IF p = "p2" THEN <<Op("upsert", k2, "b")>>
                    ELSE <<Op("upsert", k3, "c")>>]

SpecRace == InitRace /\ [][Next]_vars

\* One caller runs one operation while a second caller keeps writing: as many
\* writes as the first caller has attempts.
InitRetry ==
    /\ InitCallers
    /\ store \in Docs({"k1"}, {"a"}, MaxLen)
    /\ strict \in BOOLEAN
    /\ \E o \in Ops({"k1"}, {"b"}) :
       \E w \in {Op("upsert", "k1", "b"), Op("remove", "k3", "")} :
          plan = [p \in Procs |->
                    IF p = "p1" THEN <<o>>
                    ELSE IF p = "p2" THEN [i \in 1..MaxAttempts |-> w]
                    ELSE <<>>]

SpecRetry == InitRetry /\ [][Next]_vars

\* the documents whose keys are pairwise distinct
UniqueDocs(keys, values, n) ==
    {d \in Docs(keys, values, n) : ~HasDuplicateKey(MetaItems(d))}

\* Up to three callers race with one operation each, of any kind, on a
\* document whose keys are pairwise distinct.
InitMix ==
    /\ InitCallers
    /\ store \in UniqueDocs({"k1", "k2"}, {"z"}, MaxLen)
    /\ strict \in BOOLEAN
    /\ \E o1 \in {Op("upsert", "k1", "a"), Op("add", "k1", "a")} :
       \E o2 \in {Op("upsert", "k1", "b"), Op("add", "k1", "b"),
                  Op("remove", "k1", ""), Op("upsert", "k2", "b")} :
       \E q \in {<<>>, <<Op("remove", "k2", "")>>, <<Op("add", "k2", "c")>>,
                 <<Op("upsert", "k1", "c")>>} :
          plan = [p \in Procs |->
                    IF p = "p1" THEN <<o1>>
                    ELSE IF p = "p2" THEN <<o2>> ELSE q]

SpecMix == InitMix /\ [][Next]_vars

\* the steps of a caller when the store fails a commit only for a stale
\* fingerprint and every read answers
LiveStep(p) ==
    \/ Call(p)
    \/ Fetch(p)
    \/ RunCallback(p)
    \/ CommitAccept(p)
    \/ CommitConflict(p)

NextLive ==
    \E p \in Procs :
        \/ Call(p)
        \/ Fetch(p)
        \/ RunCallback(p)
        \/ CommitAccept(p)
        \/ CommitConflict(p)

\* Every caller runs one apply on the same document, which has pairwise
\* distinct keys; there is no other writer, and the store does not look at the
\* keys.
InitLive ==
    /\ InitCallers
    /\ store \in UniqueDocs({"k1", "k2"}, {"z"}, MaxLen)
    /\ strict = FALSE
    /\ \E o2 \in {Op("upsert", "k1", "b"), Op("remove", "k1", "")} :
       \E o3 \in {Op("upsert", "k1", "c"), Op("upsert", "k2", "c")} :
          plan = [p \in Procs |->
                    IF p = "p1" THEN <<Op("upsert", "k1", "a")>>
                    ELSE IF p = "p2" THEN <<o2>> ELSE <<o3>>]

\* gce_metadata_save_op blocks its caller and loops on the caller's thread:
\* a caller that can take its next step takes it
SpecLive ==
    /\ InitLive
    /\ [][NextLive]_vars
    /\ \A p \in Procs : WF_vars(LiveStep(p))

\* the keys "f" and "fo", as the sequences of their characters
KeyF == <<"f">>
KeyFo == <<"f", "o">>

\* the document of the last-match example: the key "f" twice, "fo" between
LastMatchDoc ==
    Doc(TRUE, <<Entry(KeyF, "a"), Entry(KeyFo, "b"), Entry(KeyF, "c")>>)

\* One caller reads, by key or by pattern, while two callers write one
\* operation each.
InitRead ==
    /\ InitCallers
    /\ store \in Docs({KeyF, KeyFo}, {"a", "b"}, MaxLen) \cup {LastMatchDoc}
    /\ strict \in BOOLEAN
    /\ \E r \in GetOps({KeyF, KeyFo}) \cup FindOps({<<"f", "*">>, <<"o">>}) :
       \E w \in {Op("remove", KeyFo, ""), Op("add", KeyF, "a")} :
          plan = [p \in Procs |->
                    IF p = "p1" THEN <<r>>
                    ELSE IF p = "p2" THEN <<Op("upsert", KeyF, "b")>>
                    ELSE <<w>>]

SpecRead == InitRead /\ [][Next]_vars

\* the steps of a caller that only reads
NextRead ==
    \E p \in Procs :
        \/ Call(p)
        \/ Fetch(p)
        \/ FetchFail(p)

\* the pattern "foo*" and the document with the keys "foobar", "baz", "foo"
FooStar == <<"f", "o", "o", "*">>
FooDoc ==
    Doc(TRUE, <<Entry(<<"f", "o", "o", "b", "a", "r">>, "a"),
                Entry(<<"b", "a", "z">>, "a"),
                Entry(<<"f", "o", "o">>, "a")>>)

\* One caller runs find_all_metadata_items: every pattern of at most
\* MaxPatLen characters over every document of at most MaxLen keys of at most
\* MaxKeyLen characters, and "foo*" over the keys foobar, baz, foo.
InitFind ==
    /\ InitCallers
    /\ strict = FALSE
    /\ \/ /\ store \in Docs(SeqsUpTo({"f", "o"}, MaxKeyLen), {"a"}, MaxLen)
          /\ \E pt \in SeqsUpTo({"f", "o", "*", "?"}, MaxPatLen) :
                plan = [p \in Procs |->
                          IF p = "p1" THEN <<Op("find", pt, "")>> ELSE <<>>]
       \/ /\ store = FooDoc
          /\ plan = [p \in Procs |->
                      IF p = "p1" THEN <<Op("find", FooStar, "")>> ELSE <<>>]

SpecFind == InitFind /\ [][NextRead]_vars

----------------------------------------------------------------------------
(* Properties *)

Returned(p) == pc[p] = "returned"
Succeeded(p) == pc[p] = "returned" /\ raised[p] = NoExc
Running(p) == pc[p] \in {"fetch", "callback", "commit"}

\* the latest accepted write, when there is one
LastWrite == log[Len(log)]

\* C1: atomicity of a successful update.  The items an accepted commit stores
\* are the caller's mutation applied to the items that were stored right
\* before that commit, and they are what the store holds right after it.
C1_Atomicity ==
    /\ \A i \in 1..Len(log) :
          MetaItems(log[i].after) = MetaItems(Callback(log[i].op, log[i].before).md)
    /\ log # <<>> =>
          /\ store.fingerprint = LastWrite.before.fingerprint + 1
          /\ MetaItems(store) = MetaItems(Callback(LastWrite.op, LastWrite.before).md)

\* C1 witness: a commit is accepted after its caller lost a race and retried
\* on a document another caller had changed.
C1_Witness ==
    /\ Len(log) >= 2
    /\ attempt[LastWrite.proc] >= 2
    /\ Succeeded(LastWrite.proc)
    /\ MetaItems(LastWrite.before) # MetaItems(log[1].before)
    /\ MetaItems(LastWrite.after) # MetaItems(LastWrite.before)

\* every caller runs upsertItem on the key k1
SameKeyRace == \A p \in Procs : Len(plan[p]) = 1 /\ plan[p][1] = Op("upsert", "k1", plan[p][1].value)

\* every caller runs upsertItem on a key of its own
DistinctKeyRace ==
    /\ \A p \in Procs : Len(plan[p]) = 1 /\ plan[p][1].kind = "upsert"
    /\ \A p, q \in Procs : p # q => plan[p][1].key # plan[q][1].key

\* C2: last committed wins.  When the concurrent upsertItem calls on one key
\* have all returned successfully, the value stored for the key is the value
\* of the call whose commit was accepted last.
C2_LastCommittedWins ==
    (SameKeyRace /\ \A p \in Procs : Succeeded(p)) =>
        /\ log # <<>>
        /\ ItemValue(store, "k1") = plan[LastWrite.proc][1].value
        /\ Cardinality({p \in Procs : plan[p][1].value = ItemValue(store, "k1")}) = 1

\* C2 witness: three calls on one key have all succeeded, one of them after
\* two conflicts, and the first caller was not the last to commit.
C2_Witness ==
    /\ SameKeyRace
    /\ \A p \in Procs : Succeeded(p)
    /\ \E p \in Procs : nConflict[p] = 2
    /\ LastWrite.proc # "p1"
    /\ ItemValue(store, "k1") # "a"

\* what upsertItem on pairwise distinct keys leaves when every call succeeded
NoLostUpdate ==
    (DistinctKeyRace /\ \A p \in Procs : Succeeded(p)) =>
        \A p \in Procs : ItemValue(store, plan[p][1].key) = plan[p][1].value

\* C3 as stated: no update is lost, and of two commits that present the same
\* fingerprint exactly one is accepted: two callers about to commit under the
\* same fingerprint hold the current one, so that the first of them to reach
\* the store is accepted.
C3_Original ==
    /\ NoLostUpdate
    /\ \A p, q \in Procs :
          (DistinctKeyRace /\ p # q /\ pc[p] = "commit" /\ pc[q] = "commit"
             /\ metadata[p].fingerprint = metadata[q].fingerprint)
          => metadata[p].fingerprint = store.fingerprint

\* the commit step of caller p
CommitStep(p) == pc[p] = "commit" /\ pc'[p] # "commit"

\* a stale commit is refused: nothing is written, and the caller either
\* restarts with a further attempt or ends with the error
StaleCommitRefused ==
    \A p \in Procs :
        (CommitStep(p) /\ metadata[p].fingerprint # store.fingerprint) =>
            /\ store' = store
            /\ log' = log
            /\ \/ /\ pc'[p] = "fetch"
                  /\ attempt'[p] = attempt[p] + 1
                  /\ attempt[p] < MaxAttempts
                  /\ nConflict'[p] = nConflict[p] + 1
               \/ /\ pc'[p] = "returned"
                  /\ raised'[p] = FingerprintError
                  /\ attempt[p] = MaxAttempts
               \/ /\ pc'[p] = "returned"
                  /\ raised'[p] \in {TransportError, NotFoundError, DuplicateKeyError}

\* the fetch that starts an attempt reads the stored document
FreshFetch ==
    \A p \in Procs :
        (pc[p] = "fetch" /\ pc'[p] = "callback") => metadata'[p] = store

\* the accepted commits presented pairwise different fingerprints
OneAcceptedPerFingerprint ==
    \A i, j \in 1..Len(log) : i # j => log[i].fingerprint # log[j].fingerprint

\* C3 amended: no update is lost; of the commits that present the same
\* fingerprint at most one is accepted, and a commit refused as stale makes
\* its caller restart from a fresh fetch while attempts remain.
C3_NoLostUpdates ==
    /\ [](NoLostUpdate /\ OneAcceptedPerFingerprint)
    /\ [][StaleCommitRefused /\ FreshFetch]_vars

\* C3 witness: three calls on distinct keys have all succeeded after two of
\* them were refused under the same fingerprint, and every key is stored.
C3_Witness ==
    /\ DistinctKeyRace
    /\ \A p \in Procs : Succeeded(p)
    /\ Cardinality({p \in Procs : nConflict[p] >= 1}) = 2
    /\ \A p \in Procs : ItemValue(store, plan[p][1].key) = plan[p][1].value
    /\ Len(MetaItems(store)) >= 3

\* C4: an apply whose first k commits are refused as stale and whose next
\* commit is accepted has made k+1 fetches, k+1 callback invocations and k+1
\* commits, 0 <= k <= 9, each attempt in the order fetch, callback, commit.
C4_AttemptCounts ==
    \A p \in Procs :
        /\ Succeeded(p) =>
              /\ nConflict[p] \in 0..9
              /\ nFetch[p] = nConflict[p] + 1
              /\ nCallback[p] = nConflict[p] + 1
              /\ nCommit[p] = nConflict[p] + 1
        /\ pc[p] = "fetch" =>
              /\ nFetch[p] = nConflict[p]
              /\ nCallback[p] = nConflict[p]
              /\ nCommit[p] = nConflict[p]
        /\ pc[p] = "callback" =>
              /\ nFetch[p] = nConflict[p] + 1
              /\ nCallback[p] = nConflict[p]
              /\ nCommit[p] = nConflict[p]
        /\ pc[p] = "commit" =>
              /\ nFetch[p] = nConflict[p] + 1
              /\ nCallback[p] = nConflict[p] + 1
              /\ nCommit[p] = nConflict[p]

\* C4 witness: a call succeeds on its tenth attempt, after nine conflicts.
C4_Witness ==
    \E p \in Procs :
        /\ Succeeded(p)
        /\ nConflict[p] = 9
        /\ nCommit[p] = 10

OtherHttpErrors == {TransportError, NotFoundError, DuplicateKeyError}

\* C5: only a fingerprint conflict is retried.  The attempts of a call are its
\* conflicts plus one, and a call whose commit failed with another error ended
\* with that error after as many fetches and commits: one fetch and one commit
\* when it was the first attempt.
C5_OnlyConflictsRetried ==
    \A p \in Procs :
        /\ idx[p] > 0 =>
              attempt[p] = IF Returned(p) /\ raised[p] = FingerprintError
                           THEN nConflict[p] ELSE nConflict[p] + 1
        /\ (Returned(p) /\ raised[p] \in OtherHttpErrors /\ nCommit[p] = nFetch[p]) =>
              /\ nFetch[p] = nConflict[p] + 1
              /\ nCommit[p] = nConflict[p] + 1
              /\ nConflict[p] = 0 => (nFetch[p] = 1 /\ nCommit[p] = 1)

\* C5 witness: after a conflict, the commit of the second attempt is refused
\* for a duplicate key and the call ends with that error.
C5_Witness ==
    \E p \in Procs :
        /\ Returned(p)
        /\ raised[p] = DuplicateKeyError
        /\ nConflict[p] = 1
        /\ nFetch[p] = 2
        /\ nCommit[p] = 2

\* C6: an apply makes at most 10 attempts.  When every commit is refused as
\* stale it ends after exactly 10 fetches and 10 commits with the conflict
\* error of the last attempt.
C6_AttemptBound ==
    \A p \in Procs :
        /\ attempt[p] <= 10
        /\ nFetch[p] <= 10
        /\ nCommit[p] <= 10
        /\ nConflict[p] = 10 =>
              /\ Returned(p)
              /\ raised[p] = FingerprintError
              /\ nFetch[p] = 10
              /\ nCallback[p] = 10
              /\ nCommit[p] = 10
        /\ (Returned(p) /\ raised[p] = FingerprintError) => nConflict[p] = 10

\* C6 witness: a call has ended with the conflict error after ten attempts.
C6_Witness ==
    \E p \in Procs :
        /\ Returned(p)
        /\ raised[p] = FingerprintError
        /\ nFetch[p] = 10
        /\ nCommit[p] = 10

\* how many entries of a document carry the key
Count(md, key) == Cardinality(KeyPositions(MetaItems(md), key))

\* the latest accepted write is the one of caller p's current call
WroteLast(p) == log # <<>> /\ LastWrite.proc = p /\ LastWrite.idx = idx[p]

\* C7: removeItem returns true exactly when it removed an entry.  Over a
\* document with one entry for the key it returns true and commits a document
\* without the key; over a document without the key it returns false.
C7_RemoveReturn ==
    \A p \in Procs :
        (Succeeded(p) /\ CurOp(p).kind = "remove" /\ WroteLast(p)) =>
            /\ Count(LastWrite.before, CurOp(p).key) = 1 =>
                  /\ ret[p] = "True"
                  /\ Count(LastWrite.after, CurOp(p).key) = 0
            /\ Count(LastWrite.before, CurOp(p).key) = 0 => ret[p] = "False"

\* the callback step of a removeItem whose fetched document holds the key twice
\* or more
RemoveOfDuplicates(p) ==
    /\ pc[p] = "callback"
    /\ pc'[p] # "callback"
    /\ CurOp(p).kind = "remove"
    /\ Count(metadata[p], CurOp(p).key) >= 2

\* C8: removeItem on a fetched document with two or more entries for the key
\* ends with ProviderInternalException: no commit is issued in that attempt,
\* there is no retry, and the stored document is left as it was.
C8_MultipleEntriesFatal ==
    /\ [](\A p \in Procs :
            (Returned(p) /\ raised[p] = InternalError) =>
                /\ CurOp(p).kind = "remove"
                /\ Count(metadata[p], CurOp(p).key) >= 2
                /\ nFetch[p] = nCallback[p]
                /\ nCommit[p] = nCallback[p] - 1
                /\ nCommit[p] = nConflict[p])
    /\ [][\A p \in Procs :
            RemoveOfDuplicates(p) =>
                /\ pc'[p] = "returned"
                /\ raised'[p] = InternalError
                /\ attempt'[p] = attempt[p]
                /\ nCommit'[p] = nCommit[p]
                /\ metadata'[p] = metadata[p]
                /\ store' = store
                /\ log' = log]_vars

\* C8 witness: a removeItem has ended with the internal error on its second
\* attempt, and the store still holds both entries for the key.
C8_Witness ==
    \E p \in Procs :
        /\ Returned(p)
        /\ raised[p] = InternalError
        /\ nCallback[p] = 2
        /\ nCommit[p] = 1
        /\ Count(store, CurOp(p).key) = 2

\* C9: upsertItem is idempotent.  A second run of the same upsertItem right
\* after the first stores the items the first one stored, and an upsertItem
\* accepted on a document that already holds the value for the key, also
\* after its callback was re-run on a conflict, stores the items unchanged.
C9_UpsertIdempotent ==
    /\ \A i \in 1..(Len(log) - 1) :
          (/\ log[i].op.kind = "upsert"
           /\ log[i + 1].op = log[i].op
           /\ log[i + 1].proc = log[i].proc
           /\ log[i + 1].idx = log[i].idx + 1)
          => MetaItems(log[i + 1].after) = MetaItems(log[i].after)
    /\ \A i \in 1..Len(log) :
          (/\ log[i].op.kind = "upsert"
           /\ ItemValue(log[i].before, log[i].op.key) = log[i].op.value)
          => MetaItems(log[i].after) = MetaItems(log[i].before)

\* C9 witness: the same upsertItem has run twice in sequence; the first run,
\* accepted after another caller's write, changed the document, the second
\* was accepted right after it.
C9_Witness ==
    /\ Len(log) = 2
    /\ log[1].proc = "p1" /\ log[2].proc = "p1"
    /\ log[1].idx = 1 /\ log[2].idx = 2
    /\ log[1].op.kind = "upsert" /\ log[2].op = log[1].op
    /\ log[1].fingerprint = 1
    /\ MetaItems(log[1].after) # MetaItems(log[1].before)
    /\ Succeeded("p1")

\* C10: upsertItem on a document with entries for the key replaces the value
\* of the last of them and leaves the length, the order and every other entry
\* as they were; on a document without the key it appends the one entry.
C10_UpsertLastEntry ==
    \A i \in 1..Len(log) :
        log[i].op.kind = "upsert" =>
            LET b == MetaItems(log[i].before)
                a == MetaItems(log[i].after)
                k == log[i].op.key
                v == log[i].op.value
                at == KeyPositions(b, k)
            IN  IF at # {}
                THEN /\ Len(a) = Len(b)
                     /\ \A j \in 1..Len(b) :
                           IF j \in at /\ \A m \in at : m <= j
                           THEN a[j] = Entry(k, v)
                           ELSE a[j] = b[j]
                ELSE a = b \o <<Entry(k, v)>>

\* C10 witness: an upsertItem was accepted on a document that held the key
\* twice, with values other than the new one.
C10_Witness ==
    \E i \in 1..Len(log) :
        /\ log[i].op.kind = "upsert"
        /\ Count(log[i].before, log[i].op.key) = 2
        /\ \A j \in 1..Len(log[i].before.items) :
              log[i].before.items[j].value # log[i].op.value
        /\ log[i].after.items[1].value # log[i].op.value

\* caller p's current call is a read operation
Reading(p) == idx[p] > 0 /\ CurOp(p).kind \in {"get", "find"}

\* C11: getItemValue returns the value of the last entry, in document order,
\* whose key is the key asked for, and None when no entry has the key or the
\* document has no items.
C11_GetLastValue ==
    \A p \in Procs :
        (Succeeded(p) /\ CurOp(p).kind = "get") =>
            LET items == IF metadata[p].hasItems THEN metadata[p].items ELSE <<>>
                k == CurOp(p).key
            IN  IF \E i \in 1..Len(items) : items[i].key = k
                THEN \E i \in 1..Len(items) :
                        /\ items[i].key = k
                        /\ \A j \in (i + 1)..Len(items) : items[j].key # k
                        /\ ret[p] = items[i].value
                ELSE ret[p] = "None"

\* C11 witness: over the items f=a, fo=b, f=c the value read for f is c.
C11_Witness ==
    /\ Succeeded("p1")
    /\ CurOp("p1") = Op("get", KeyF, "")
    /\ metadata["p1"].items = LastMatchDoc.items
    /\ ret["p1"] = "c"

\* C13: a read operation makes one fetch and no commit; it leaves the stored
\* items and fingerprint as they are, so the two writers beside one reader see
\* one conflict at most, the one they cause each other.
C13_ReadsDoNotWrite ==
    /\ [](/\ \A p \in Procs :
               Reading(p) =>
                   /\ pc[p] \in {"fetch", "returned"}
                   /\ nFetch[p] = IF pc[p] = "fetch" THEN 0 ELSE 1
                   /\ nCallback[p] = 0
                   /\ nCommit[p] = 0
                   /\ \A i \in 1..Len(log) : log[i].proc # p
          /\ (Reading("p1") \/ idx["p1"] = 0) =>
                nConflict["p2"] + nConflict["p3"] <= 1)
    /\ [][\A p \in Procs :
            (pc[p] = "fetch" /\ pc'[p] # "fetch" /\ Reading(p)) =>
                /\ store' = store
                /\ log' = log
                /\ pc'[p] = "returned"]_vars

\* C13 witness: the reader fetched between the two writers' commits; both
\* writers succeeded with the one conflict between them.
C13_Witness ==
    /\ Succeeded("p1") /\ Reading("p1")
    /\ nFetch["p1"] = 1
    /\ metadata["p1"].fingerprint = 1
    /\ Succeeded("p2") /\ Succeeded("p3")
    /\ store.fingerprint = 2
    /\ nConflict["p2"] + nConflict["p3"] = 1

\* the glob pattern matches the whole string: '*' stands for any run of
\* characters, '?' for any one character
RECURSIVE GlobMatches(_, _)
GlobMatches(pattern, string) ==
    IF pattern = <<>> THEN string = <<>>
    ELSE IF Head(pattern) = "*"
    THEN \/ GlobMatches(Tail(pattern), string)
         \/ string # <<>> /\ GlobMatches(pattern, Tail(string))
    ELSE /\ string # <<>>
         /\ Head(pattern) \in {"?", Head(string)}
         /\ GlobMatches(Tail(pattern), Tail(string))

\* the glob pattern matches from some position of the key on
SearchMatches(pattern, key) ==
    \E from \in 1..(Len(key) + 1) :
        GlobMatches(pattern, SubSeq(key, from, Len(key)))

\* C14: findItems returns the fetched items whose key the pattern matches
\* from some position on, in document order, and the empty list when there
\* are no items; "foo*" over the keys foobar, baz, foo gives foobar and foo.
C14_FindMatching ==
    \A p \in Procs :
        (Succeeded(p) /\ CurOp(p).kind = "find") =>
            LET items == IF metadata[p].hasItems THEN metadata[p].items ELSE <<>>
                Wanted(e) == SearchMatches(CurOp(p).key, e.key)
            IN  /\ ret[p] = SelectSeq(items, Wanted)
                /\ (CurOp(p).key = FooStar /\ metadata[p] = FooDoc) =>
                      ret[p] = <<FooDoc.items[1], FooDoc.items[3]>>

\* C14 witness: "foo*" was searched over foobar, baz, foo and two entries
\* came back.
C14_Witness ==
    /\ Succeeded("p1")
    /\ CurOp("p1") = Op("find", FooStar, "")
    /\ metadata["p1"] = FooDoc
    /\ Len(ret["p1"]) = 2

\* the commit step of caller p that the store refuses for a duplicate key:
\* not as stale, and not with a failure of another kind
DuplicateRefused(p) ==
    /\ pc[p] = "commit"
    /\ pc'[p] # "commit"
    /\ strict
    /\ \E i, j \in 1..Len(metadata[p].items) :
          i # j /\ metadata[p].items[i].key = metadata[p].items[j].key
    /\ nConflict'[p] = nConflict[p]
    /\ faults' = faults

\* C12: addItem appends its entry at the end of the fetched items whatever
\* their keys; the duplicate-key error of the store ends the call with that
\* error after the one commit, without a retry and with the store unchanged.
C12_AddDuplicateFatal ==
    /\ [](/\ \A i \in 1..Len(log) :
               log[i].op.kind = "add" =>
                   /\ log[i].after.hasItems
                   /\ log[i].after.items =
                         MetaItems(log[i].before)
                            \o <<Entry(log[i].op.key, log[i].op.value)>>
          /\ \A p \in Procs :
               (Returned(p) /\ raised[p] = DuplicateKeyError) =>
                   /\ nCommit[p] = nConflict[p] + 1
                   /\ nFetch[p] = nCommit[p]
                   /\ attempt[p] = nCommit[p]
                   /\ ~WroteLast(p))
    /\ [][\A p \in Procs :
            DuplicateRefused(p) =>
                /\ pc'[p] = "returned"
                /\ raised'[p] = DuplicateKeyError
                /\ store' = store
                /\ log' = log
                /\ attempt'[p] = attempt[p]]_vars

\* C12 witness: an addItem of a key the document holds has ended with the
\* duplicate-key error after its first commit; the key is stored once.
C12_Witness ==
    \E p \in Procs :
        /\ Returned(p)
        /\ CurOp(p).kind = "add"
        /\ raised[p] = DuplicateKeyError
        /\ nCommit[p] = 1
        /\ Count(store, CurOp(p).key) = 1
        /\ log = <<>>

\* C15: in every attempt the callback gets the document the fetch of that
\* attempt returned, and the commit presents the fingerprint of that fetch;
\* nothing fetched in an earlier attempt is presented later.
C15_FreshPerAttempt ==
    /\ [](\A p \in Procs :
            pc[p] \in {"callback", "commit"} =>
                /\ metadata[p].fingerprint >= nConflict[p]
                /\ metadata[p].fingerprint <= store.fingerprint)
    /\ [][\A p \in Procs :
            /\ (pc[p] = "fetch" /\ pc'[p] = "callback") =>
                  metadata'[p] = store
            /\ (pc[p] = "callback" /\ pc'[p] = "callback") =>
                  metadata'[p] = metadata[p]
            /\ (pc[p] = "callback" /\ pc'[p] = "commit") =>
                  /\ metadata'[p] = Callback(CurOp(p), metadata[p]).md
                  /\ metadata'[p].fingerprint = metadata[p].fingerprint
            /\ (pc[p] = "commit" /\ pc'[p] = "commit") =>
                  metadata'[p] = metadata[p]
            /\ (CommitStep(p) /\ store' # store) =>
                  /\ metadata[p].fingerprint = store.fingerprint
                  /\ log'[Len(log')].fingerprint = metadata[p].fingerprint
                  /\ log'[Len(log')].after = metadata[p]]_vars

\* C15 witness: a commit is accepted on the third attempt, under the
\* fingerprint of the third fetch.
C15_Witness ==
    \E p \in Procs :
        /\ Succeeded(p)
        /\ nConflict[p] = 2
        /\ nFetch[p] = 3
        /\ WroteLast(p)
        /\ LastWrite.fingerprint = LastWrite.before.fingerprint
        /\ LastWrite.fingerprint >= 2

\* a removal whose callback finds nothing to delete in the fetched document
NothingToRemove(p) ==
    /\ CurOp(p).kind = "remove"
    /\ Count(metadata[p], CurOp(p).key) = 0
    /\ ~HasDuplicateKey(MetaItems(metadata[p]))

\* C16: removeItem over a fetched document without the key still commits: the
\* callback leaves the document as fetched, the commit carries the fetched
\* items and fingerprint, an accepted one stores the same items under a new
\* fingerprint, and a stale one is a conflict that is retried against a fresh
\* fetch and ends in the fingerprint error after 10 attempts.
C16_NoOpRemoveCommits ==
    [][\A p \in Procs :
        /\ (pc[p] = "callback" /\ pc'[p] # "callback" /\ NothingToRemove(p)) =>
              /\ pc'[p] = "commit"
              /\ metadata'[p] = metadata[p]
              /\ cbret'[p] = "False"
              /\ store' = store
        /\ (CommitStep(p) /\ NothingToRemove(p) /\ cbret[p] = "False"
                /\ faults' = faults) =>
              IF metadata[p].fingerprint = store.fingerprint
              THEN /\ pc'[p] = "returned"
                   /\ raised'[p] = NoExc
                   /\ MetaItems(store') = MetaItems(store)
                   /\ store'.fingerprint = store.fingerprint + 1
                   /\ log'[Len(log')].fingerprint = metadata[p].fingerprint
                   /\ log'[Len(log')].after = metadata[p]
              ELSE /\ store' = store
                   /\ log' = log
                   /\ nConflict'[p] = nConflict[p] + 1
                   /\ IF attempt[p] < 10
                      THEN /\ pc'[p] = "fetch"
                           /\ attempt'[p] = attempt[p] + 1
                      ELSE /\ pc'[p] = "returned"
                           /\ raised'[p] = FingerprintError]_vars

\* C16 witness: a removal of a key that was never there lost ten races
\* against a writer and ended with the fingerprint error.
C16_Witness ==
    \E p \in Procs :
        /\ Returned(p)
        /\ CurOp(p).kind = "remove"
        /\ raised[p] = FingerprintError
        /\ nCommit[p] = 10
        /\ nConflict[p] = 10
        /\ cbret[p] = "False"
        /\ MetaItems(store) = <<>>

\* the call caller p is in has an accepted write among the latest ones
HasWritten(p) == \E i \in 1..Len(log) : log[i].proc = p /\ log[i].idx = idx[p]

NoAddPlanned == \A p \in Procs : \A i \in 1..Len(plan[p]) : plan[p][i].kind # "add"

\* C18: key uniqueness is preserved.  From a document with pairwise distinct
\* keys, and a store that refuses duplicate keys, every interleaving of
\* upsertItem, addItem and removeItem calls leaves the stored keys pairwise
\* distinct, and no upsertItem or removeItem is ever refused for a duplicate.
\* Concurrent upsertItem and removeItem calls keep the keys distinct by
\* themselves: they never produce a second entry for a key.
C18_KeysStayUnique ==
    /\ strict => ~HasDuplicateKey(MetaItems(store))
    /\ NoAddPlanned => ~HasDuplicateKey(MetaItems(store))
    /\ \A i \in 1..Len(log) :
          (log[i].op.kind # "add" /\ ~HasDuplicateKey(MetaItems(log[i].before))) =>
              ~HasDuplicateKey(MetaItems(log[i].after))
    /\ \A p \in Procs :
          (strict /\ idx[p] > 0 /\ CurOp(p).kind # "add") =>
              /\ raised[p] \notin {DuplicateKeyError, InternalError}
              /\ pc[p] = "commit" => ~HasDuplicateKey(MetaItems(metadata[p]))

\* C18 witness: two upsertItem calls for the same new key raced, one retried,
\* both succeeded, and the key has one entry.
C18_Witness ==
    /\ strict
    /\ Len(log) = 2
    /\ log[1].before.fingerprint = 0
    /\ Count(log[1].before, "k1") = 0
    /\ log[1].op.kind = "upsert" /\ log[2].op.kind = "upsert"
    /\ log[1].op.key = "k1" /\ log[2].op.key = "k1"
    /\ log[1].proc # log[2].proc
    /\ Succeeded(log[1].proc) /\ Succeeded(log[2].proc)
    /\ nConflict[log[2].proc] = 1
    /\ Count(store, "k1") = 1

\* the two callers of the addItem race, and the case the race is about: both
\* run addItem for the key "k1", nobody else writes, the store refuses
\* duplicate keys and fails no commit for another reason
AddRace ==
    /\ strict
    /\ faults = 0
    /\ plan["p3"] = <<>>
    /\ \A p \in {"p1", "p2"} :
          /\ Returned(p)
          /\ CurOp(p).kind = "add"
          /\ CurOp(p).key = "k1"

\* C20: two concurrent addItem calls with the same key, on a document without
\* the key and a store that refuses duplicate keys: exactly one succeeds, the
\* other ends with the duplicate-key error after at most one conflict that was
\* retried against a fresh fetch, and the stored document holds one entry for
\* the key, with the successful caller's value.
C20_AddRaceOneWinner ==
    AddRace =>
        IF log = <<>>
        THEN Count(store, "k1") >= 1
        ELSE /\ log[1].before.fingerprint = 0
             /\ Count(log[1].before, "k1") = 0 =>
                   /\ Len(log) = 1
                   /\ Count(store, "k1") = 1
                   /\ \E w, l \in {"p1", "p2"} :
                         /\ w # l
                         /\ Succeeded(w)
                         /\ log[1].proc = w
                         /\ nConflict[w] = 0
                         /\ raised[l] = DuplicateKeyError
                         /\ nConflict[l] <= 1
                         /\ nFetch[l] = nConflict[l] + 1
                         /\ nCommit[l] = nFetch[l]
                         /\ MetaItems(store) =
                               MetaItems(log[1].before)
                                  \o <<Entry("k1", CurOp(w).value)>>

\* C20 witness: both fetched the document without the key; the loser's first
\* commit conflicted, and its second one was refused as a duplicate.
C20_Witness ==
    /\ AddRace
    /\ Len(log) = 1
    /\ Count(log[1].before, "k1") = 0
    /\ Succeeded("p1")
    /\ raised["p2"] = DuplicateKeyError
    /\ nConflict["p2"] = 1
    /\ nFetch["p2"] = 2
    /\ Count(store, "k1") = 1

\* the callers other than p whose apply has succeeded
OthersDone(p) == {q \in Procs \ {p} : Succeeded(q)}

\* C19: with no more callers than attempts, one apply each, a store that
\* fails commits only for stale fingerprints and no other writer, no caller
\* exhausts its attempts and every apply eventually succeeds: every accepted
\* commit ends its caller's apply, and a caller has seen no more conflicts
\* than there are other callers whose commit was accepted, which is fewer
\* than the 10 attempts it has.
C19_AllEventuallySucceed ==
    /\ [](/\ Cardinality(Procs) <= 10
          /\ store.fingerprint = Cardinality({q \in Procs : Succeeded(q)})
          /\ \A p \in Procs :
                /\ raised[p] = NoExc
                /\ nConflict[p] <= Cardinality(OthersDone(p))
                /\ nConflict[p] <= 9
                /\ attempt[p] <= nConflict[p] + 1)
    /\ [][\A p \in Procs :
            (CommitStep(p) /\ nConflict'[p] = nConflict[p] + 1) =>
                /\ metadata[p].fingerprint < store.fingerprint
                /\ nConflict[p] <= metadata[p].fingerprint
                /\ pc'[p] = "fetch"]_vars
    /\ <>[](\A p \in Procs : Succeeded(p))

\* C19 witness: every apply has succeeded, and one caller got there on its
\* third attempt, after a conflict with each of the two others.
C19_Witness ==
    /\ \A p \in Procs : Succeeded(p)
    /\ \E p \in Procs :
          /\ nConflict[p] = 2
          /\ attempt[p] = 3
          /\ Cardinality(OthersDone(p)) = 2
    /\ store.fingerprint = 3

====
